---- MODULE Spec2Model ----
(***************************************************************************)
(* Model of the request-execution engine of rest-api-mcp                   *)
(* (client/client.go): URL resolution, bounded body capture, one attempt   *)
(* and the retry loop of Client.ExecuteRequest.                            *)
(*                                                                         *)
(* Strings are sequences of one-character strings.  Byte slices are        *)
(* modelled by their length.  int64 arithmetic is modelled at the reduced  *)
(* width IntBits (two's complement, wrapping), because the values of the   *)
(* real width do not fit the integers of the model checker.                *)
(***************************************************************************)
EXTENDS Integers, Sequences, FiniteSets, TLC

\* ------------------------------------------------------------------ bounds
\* width of the modelled int64
IntBits == 17
\* largest configured retry count explored (the --retry flag takes any int)
MaxRetry == 2
\* number of sequential ExecuteRequest calls explored on one Client
MaxCalls == 2
\* http.Client.Timeout of the configurations explored, in time units
ClientTimeout == 2

\* ------------------------------------------------------- program constants
\* NewClient: maxResponseSize = 51200 when the configured value is <= 0
DefaultMaxResponseSize == 51200
\* http.StatusFound, the redirect answered by the server of the tests
RedirectStatus == 302

\* ------------------------------------------------------------ int64 helper
MaxInt64 == 2^(IntBits - 1) - 1
MinInt64 == 0 - 2^(IntBits - 1)

\* two's complement wrap-around of Go's fixed-width signed addition
Wrap64(x) == ((x - MinInt64) % 2^IntBits) + MinInt64

Min(a, b) == IF a < b THEN a ELSE b

\* ------------------------------------------------------------------ values
NoErr == "nil"
ErrParsingURL == "parsing URL"
ErrCreatingRequest == "creating request"
ErrExecuting == "executing"
ErrReadingBody == "reading response body"

NilResponse ==
    [isNil |-> TRUE, StatusCode |-> 0, BodyLen |-> 0,
     Truncated |-> FALSE, OriginalSize |-> 0]

\* the control byte 0x7f; net/url rejects any URL that contains one
DEL == "DEL"

\* ------------------------------------------------------------- strings
HasPrefix(s, c) == Len(s) > 0 /\ s[1] = c

RECURSIVE TrimRight(_, _)
TrimRight(s, c) ==
    IF Len(s) > 0 /\ s[Len(s)] = c
    THEN TrimRight(SubSeq(s, 1, Len(s) - 1), c)
    ELSE s

Contains(s, c) == \E i \in 1..Len(s) : s[i] = c

\* net/url.Parse: fails on a control byte in the raw URL
UrlParses(rawURL) == ~Contains(rawURL, DEL)

\* net/http.validMethod: the empty method means GET; otherwise every
\* character must be a token character (a space is not)
ValidMethod(method) == ~Contains(method, " ")

\* ------------------------------------------------------------- query string
\* characters of the modelled strings, in byte order
Alphabet == <<"&", "/", "1", "2", ":", "=", "?", "a", "b", "h", "x", DEL>>

CharRank(c) == CHOOSE i \in 1..Len(Alphabet) : Alphabet[i] = c

\* Go's string comparison s < t (bytewise lexicographic)
RECURSIVE StrLess(_, _)
StrLess(s, t) ==
    IF Len(t) = 0 THEN FALSE
    ELSE IF Len(s) = 0 THEN TRUE
    ELSE IF s[1] # t[1] THEN CharRank(s[1]) < CharRank(t[1])
    ELSE StrLess(Tail(s), Tail(t))

\* strings.Index for a single character: 0 when absent
IndexOf(s, c) ==
    IF Contains(s, c)
    THEN CHOOSE i \in 1..Len(s) : s[i] = c /\ \A j \in 1..(i - 1) : s[j] # c
    ELSE 0

\* strings.Cut(s, c): <<before, after>>; after is empty when c is absent
Cut(s, c) ==
    LET i == IndexOf(s, c)
    IN IF i = 0 THEN <<s, <<>>>>
       ELSE <<SubSeq(s, 1, i - 1), SubSeq(s, i + 1, Len(s))>>

\* url.ParseQuery: the key/value pairs of a raw query, in order of appearance
RECURSIVE ParseQuery(_)
ParseQuery(raw) ==
    IF Len(raw) = 0 THEN <<>>
    ELSE LET seg == Cut(raw, "&")
             kv == Cut(seg[1], "=")
         IN IF Len(seg[1]) = 0 THEN ParseQuery(seg[2])
            ELSE <<kv>> \o ParseQuery(seg[2])

RECURSIVE ValuesOf(_, _)
ValuesOf(pairs, k) ==
    IF Len(pairs) = 0 THEN <<>>
    ELSE (IF pairs[1][1] = k THEN <<pairs[1][2]>> ELSE <<>>)
         \o ValuesOf(Tail(pairs), k)

\* URL.Query(): url.Values, a map from key to the list of its values
Query(raw) ==
    LET pairs == ParseQuery(raw)
    IN [k \in {pairs[i][1] : i \in 1..Len(pairs)} |-> ValuesOf(pairs, k)]

\* the loop with query.Add in place of query.Set: values are appended
SetAll_Append(query, queryParams) ==
    [k \in DOMAIN query \cup DOMAIN queryParams |->
        IF k \in DOMAIN queryParams
        THEN (IF k \in DOMAIN query THEN query[k] ELSE <<>>) \o <<queryParams[k]>>
        ELSE query[k]]

\* the loop "for key, value := range queryParams { query.Set(key, value) }"
SetAll(query, queryParams) ==
    [k \in DOMAIN query \cup DOMAIN queryParams |->
        IF k \in DOMAIN queryParams THEN <<queryParams[k]>> ELSE query[k]]

RECURSIVE SortedKeys(_)
SortedKeys(keys) ==
    IF keys = {} THEN <<>>
    ELSE LET m == CHOOSE k \in keys : \A o \in keys \ {k} : StrLess(k, o)
         IN <<m>> \o SortedKeys(keys \ {m})

RECURSIVE EncodeKey(_, _)
EncodeKey(k, vals) ==
    IF Len(vals) = 0 THEN <<>>
    ELSE <<k \o <<"=">> \o vals[1]>> \o EncodeKey(k, Tail(vals))

RECURSIVE JoinAmp(_)
JoinAmp(parts) ==
    IF Len(parts) = 0 THEN <<>>
    ELSE IF Len(parts) = 1 THEN parts[1]
    ELSE parts[1] \o <<"&">> \o JoinAmp(Tail(parts))

RECURSIVE EncodeParts(_, _)
EncodeParts(query, keys) ==
    IF Len(keys) = 0 THEN <<>>
    ELSE EncodeKey(keys[1], query[keys[1]]) \o EncodeParts(query, Tail(keys))

\* url.Values.Encode(): "k=v" joined by "&", sorted by key
Encode(query) == JoinAmp(EncodeParts(query, SortedKeys(DOMAIN query)))

\* ------------------------------------------------------------- URLBuilder
\* base join that keeps the trailing slashes of the base URL
JoinBase_NoTrim(baseURL, url) ==
    IF HasPrefix(url, "/") /\ baseURL # <<>>
    THEN baseURL \o url
    ELSE url

\* buildRequestURL, first part: a URL beginning with "/" is appended to the
\* base URL stripped of its trailing slashes
JoinBase(baseURL, url) ==
    IF HasPrefix(url, "/") /\ baseURL # <<>>
    THEN TrimRight(baseURL, "/") \o url
    ELSE url

\* buildRequestURL: <<requestURL, err>>
buildRequestURL(baseURL, params) ==
    LET joined == JoinBase(baseURL, params.URL)
    IN IF DOMAIN params.QueryParams # {}
       THEN IF ~UrlParses(joined)
            THEN <<<<>>, ErrParsingURL>>
            ELSE LET parts == Cut(joined, "?")
                     query == SetAll(Query(parts[2]), params.QueryParams)
                 IN <<parts[1] \o <<"?">> \o Encode(query), NoErr>>
       ELSE <<joined, NoErr>>

\* ------------------------------------------------------------- BodyLimiter
\* io.ReadAll(io.LimitReader(resp.Body, limit)): bytes read from a stream
\* that holds avail bytes; a limit <= 0 reads nothing.
\* First, a read without the limit:
LimitedRead_Unbounded(avail, limit) == avail

\* io.ReadAll(io.LimitReader(resp.Body, limit))
LimitedRead(avail, limit) == IF limit <= 0 THEN 0 ELSE Min(avail, limit)

\* readResponseBody that forgets to cut the body down to the cap
readResponseBody_NoCut(avail, contentLength, maxResponseSize) ==
    LET n == LimitedRead(avail, Wrap64(maxResponseSize + 1))
        truncated == n > maxResponseSize
        originalSize == IF truncated
                        THEN (IF contentLength <= 0 THEN n ELSE contentLength)
                        ELSE 0
    IN [BodyLen |-> n,
        Truncated |-> truncated,
        OriginalSize |-> originalSize,
        BytesRead |-> n]

\* readResponseBody that never looks at the declared content length
readResponseBody_IgnoreLength(avail, contentLength, maxResponseSize) ==
    LET n == LimitedRead(avail, Wrap64(maxResponseSize + 1))
        truncated == n > maxResponseSize
        originalSize == IF truncated THEN n ELSE 0
    IN [BodyLen |-> IF truncated THEN maxResponseSize ELSE n,
        Truncated |-> truncated,
        OriginalSize |-> originalSize,
        BytesRead |-> n]

\* readResponseBody that takes the fallback original size after the cut
readResponseBody_SizeAfterCut(avail, contentLength, maxResponseSize) ==
    LET n == LimitedRead(avail, Wrap64(maxResponseSize + 1))
        truncated == n > maxResponseSize
        originalSize == IF truncated
                        THEN (IF contentLength <= 0
                              THEN maxResponseSize
                              ELSE contentLength)
                        ELSE 0
    IN [BodyLen |-> IF truncated THEN maxResponseSize ELSE n,
        Truncated |-> truncated,
        OriginalSize |-> originalSize,
        BytesRead |-> n]

\* readResponseBody without a read error: the captured length, the truncated
\* flag, the original size and the number of bytes consumed from the stream
readResponseBody(avail, contentLength, maxResponseSize) ==
    LET n == LimitedRead(avail, Wrap64(maxResponseSize + 1))
        truncated == n > maxResponseSize
        originalSize == IF truncated
                        THEN (IF contentLength <= 0 THEN n ELSE contentLength)
                        ELSE 0
    IN [BodyLen |-> IF truncated THEN maxResponseSize ELSE n,
        Truncated |-> truncated,
        OriginalSize |-> originalSize,
        BytesRead |-> n]

\* ----------------------------------------------------------- HeaderResolver
\* letter case of the characters used in header names
LowerCase ==
    <<"a", "b", "c", "d", "e", "f", "g", "h", "i", "j", "k", "l", "m",
      "n", "o", "p", "q", "r", "s", "t", "u", "v", "w", "x", "y", "z">>
UpperCase ==
    <<"A", "B", "C", "D", "E", "F", "G", "H", "I", "J", "K", "L", "M",
      "N", "O", "P", "Q", "R", "S", "T", "U", "V", "W", "X", "Y", "Z">>
ToUpper(c) ==
    IF \E i \in 1..26 : LowerCase[i] = c
    THEN UpperCase[CHOOSE i \in 1..26 : LowerCase[i] = c]
    ELSE c
ToLower(c) ==
    IF \E i \in 1..26 : UpperCase[i] = c
    THEN LowerCase[CHOOSE i \in 1..26 : UpperCase[i] = c]
    ELSE c

\* textproto.CanonicalMIMEHeaderKey, applied by http.Header.Set: the first
\* letter and every letter after a "-" in upper case, the others in lower case
CanonicalKey(name) ==
    [i \in 1..Len(name) |->
        IF i = 1 \/ name[i - 1] = "-" THEN ToUpper(name[i]) ELSE ToLower(name[i])]

\* the names of a header map that are stored under the canonical key k
NamesFor(headers, k) == {n \in DOMAIN headers : CanonicalKey(n) = k}

\* the header sets one request can carry: every default header is Set on the
\* request in map iteration order, then every per-call header; a later Set of
\* the same canonical key replaces the earlier one, and the iteration order of
\* a Go map is not fixed
SentHeaders(defaults, perCall) ==
    LET keys == {CanonicalKey(n) : n \in DOMAIN defaults \cup DOMAIN perCall}
        vals == {defaults[n] : n \in DOMAIN defaults}
                \cup {perCall[n] : n \in DOMAIN perCall}
        last(k) == IF NamesFor(perCall, k) # {}
                   THEN {perCall[n] : n \in NamesFor(perCall, k)}
                   ELSE {defaults[n] : n \in NamesFor(defaults, k)}
    IN {h \in [keys -> vals] : \A k \in keys : h[k] \in last(k)}

\* header loops that would store the per-call headers among the defaults
StoredDefaults_Leak(defaults, perCall) == perCall @@ defaults

\* the content of c.defaultHeaders after the header loops of one attempt:
\* the loops only read it
StoredDefaults(defaults, perCall) == defaults

\* ---------------------------------------------------------------- deadlines
\* no time limit / no deadline
NoLimit == 0 - 1

\* the time an attempt may take: http.Client.Timeout (when > 0) applies to
\* every Do, the deadline of the request context (when there is one) as well
TimeLimit(clientTimeout, left) ==
    IF left = NoLimit
    THEN (IF clientTimeout > 0 THEN clientTimeout ELSE NoLimit)
    ELSE (IF clientTimeout > 0 THEN Min(clientTimeout, left) ELSE left)

\* an exchange that needs d time units completes within the limit
Completes(d, limit) == limit = NoLimit \/ d <= limit

\* the deadline of a context after t more time units
Elapse(left, t) ==
    IF left = NoLimit THEN NoLimit ELSE (IF left > t THEN left - t ELSE 0)

\* context.WithTimeout is applied only for a positive per-call timeout
RequestDeadline(timeout) == IF timeout > 0 THEN timeout ELSE NoLimit

\* ----------------------------------------------------------- RedirectPolicy
\* the two branches of the policy selection exchanged
RedirectPolicy_Inverted(followRedirects) ==
    IF followRedirects THEN "useLast" ELSE "nil"

\* the CheckRedirect installed for a call: "useLast" stands for the function
\* returning http.ErrUseLastResponse, "nil" for the default chain following
RedirectPolicy(followRedirects) == IF ~followRedirects THEN "useLast" ELSE "nil"

\* ------------------------------------------------------------------ inputs
ConfigRetryCounts == (0 - 1)..MaxRetry
ConfigSizes == {0 - 1, 0, 2, MaxInt64}
BaseURLs == {<<>>, <<"h", ":", "/">>}

NoHeaders == <<>>
\* the empty request body
NoBody == <<>>
SomeDefaults == (<<"x", "-", "a">> :> "d1") @@ (<<"b">> :> "d2")

\* the configurations explored by Spec: every base URL and size cap with
\* every retry count but the largest, which is explored with one of them
Configs ==
    {c \in [BaseURL : BaseURLs, MaxResponseSize : ConfigSizes,
            RetryCount : ConfigRetryCounts, DefaultHeaders : {SomeDefaults},
            Timeout : {ClientTimeout}, RetryDelay : {1}] :
        c.RetryCount = MaxRetry
        => (c.MaxResponseSize = 2 /\ c.BaseURL # <<>>)}

GET == <<"G", "E", "T">>
POST == <<"P", "O", "S", "T">>
RelativeURL == <<"/", "x">>
AbsoluteURL == <<"h", ":", "x", "?", "a", "=", "1">>
BrokenURL == <<"h", ":", DEL>>
NoQuery == <<>>
SomeQuery == [k \in {<<"a">>} |-> <<"2">>]

\* RequestParams with every field given
ParamFull(m, u, h, q, t, f) ==
    [Method |-> m, URL |-> u, Headers |-> h, QueryParams |-> q, Body |-> NoBody,
     Timeout |-> t, FollowRedirects |-> f]

\* RequestParams p with the request body b
WithBody(p, b) == [p EXCEPT !.Body = b]

\* RequestParams without per-call headers and without a per-call timeout
Param(m, u, q, f) == ParamFull(m, u, NoHeaders, q, 0, f)

\* the calls explored
RequestParams ==
    {Param(GET, RelativeURL, NoQuery, TRUE),
     Param(GET, RelativeURL, SomeQuery, FALSE),
     Param(GET, AbsoluteURL, NoQuery, FALSE),
     Param(GET, AbsoluteURL, SomeQuery, TRUE),
     Param(GET, BrokenURL, NoQuery, TRUE),
     Param(GET, BrokenURL, SomeQuery, TRUE),
     Param(<<"G", " ", "T">>, AbsoluteURL, NoQuery, TRUE)}

\* a call: the context and the RequestParams handed to ExecuteRequest; a
\* "background" context can never be cancelled, a "cancellable" one can
Call(c, p) == [ctx |-> c, params |-> p]
BaseInputs == {Call("background", p) : p \in RequestParams}

\* what the origin server can answer
Statuses == {200, RedirectStatus, 399, 400, 499, 500, 599, 600}
BodyLens == {2, 3, DefaultMaxResponseSize + 1}
\* the time an exchange with the server can need
Durations == {1, ClientTimeout + 1}

\* ------------------------------------------------------------------- state
VARIABLES
    config,                 \* the Config handed to NewClient
    client,                 \* the Client fields
    checkRedirect,          \* c.httpClient.CheckRedirect: "nil" or "useLast"
    inputs,                 \* the calls the caller may issue
    other,                  \* a second ExecuteRequest call that may overlap
    pc,                     \* position of the caller / ExecuteRequest
    ctx,                    \* the caller's context of the current call
    params,                 \* RequestParams of the current call
    requestURL,             \* ExecuteRequest local
    deadlineLeft,           \* time left to the deadline of requestCtx
    originalCheckRedirect,  \* ExecuteRequest local
    attempt,                \* ExecuteRequest loop counter
    lastErr,                \* ExecuteRequest local
    lastResponse,           \* ExecuteRequest local
    ret,                    \* what ExecuteRequest returned: response and err
    calls,                  \* number of calls started on this Client
    outcomes,               \* outcome of each doSingleAttempt of the call
    nRoundTrips,            \* httpClient.Do invocations of the call
    nSleeps,                \* time.Sleep invocations of the call
    wire,                   \* body offered by the server in the latest attempt
    lastReq,                \* the latest request as the transport handled it
    tool,                   \* the http_request handler: input, position, result
    description,            \* the tool description built at registration
    fs,                     \* the config file and temp file of register
    cli                     \* the --default-header flags of main, raw and parsed

loc == <<ctx, params, requestURL, deadlineLeft, originalCheckRedirect, attempt,
         lastErr, lastResponse>>
hist == <<outcomes, nRoundTrips, nSleeps, wire, lastReq>>
ext == <<tool, description, fs, cli>>
vars == <<config, client, checkRedirect, inputs, other, pc, loc, ret, calls, hist,
          ext>>

NoWire == [avail |-> 0, contentLength |-> 0 - 1, bytesRead |-> 0]
NoParams == ParamFull(<<>>, <<>>, NoHeaders, NoQuery, 0, TRUE)
NoReq == [headers |-> NoHeaders, policy |-> "none", followUps |-> 0,
          limit |-> NoLimit]
NoOther == [pc |-> "idle", follow |-> TRUE, original |-> "nil", seen |-> "none"]

\* a *bool of the tool input: nil, or a pointer to a value
NilBool == [set |-> FALSE, val |-> FALSE]
PtrTo(b) == [set |-> TRUE, val |-> b]

\* HttpRequestInput
ToolInput(m, u, t, f, i) ==
    [Method |-> m, URL |-> u, Headers |-> NoHeaders, QueryParams |-> NoQuery,
     Timeout |-> t, FollowRedirects |-> f, IncludeResponseHeaders |-> i]

\* the text of a result: a fixed head followed by the method, the error or
\* the formatted response
TextOf(head, method, err, formatted) ==
    [head |-> head, method |-> method, err |-> err, formatted |-> formatted]

NoFormatted ==
    [StatusCode |-> 0, headers |-> FALSE, emptyBody |-> FALSE, shown |-> 0,
     note |-> "none", of |-> 0]

\* what the handler returns: the CallToolResult and the Go error
Result(isError, text) == [IsError |-> isError, Text |-> text, goErr |-> "nil"]
NoResult == Result(FALSE, TextOf("", <<>>, NoErr, NoFormatted))

\* the handler before its first invocation
NoTool ==
    [pc |-> "idle", input |-> ToolInput(<<>>, <<>>, <<>>, NilBool, NilBool),
     seq |-> 0, n |-> 0, params |-> NoParams, includeHeaders |-> FALSE,
     result |-> NoResult]

\* no tool description built yet
NoDescription == <<>>

\* JSON values: numbers, strings, objects (maps from names), arrays, null,
\* and text that is not JSON
JNum(n) == [t |-> "num", v |-> n]
JStr(str) == [t |-> "str", v |-> str]
JObj(f) == [t |-> "obj", v |-> f]
JArr(a) == [t |-> "arr", v |-> a]
JNull == [t |-> "null", v |-> 0]
JInvalid == [t |-> "invalid", v |-> 0]

\* a file: absent, or bytes that spell a JSON document in some layout
MissingFile == [kind |-> "missing", doc |-> JNull, layout |-> "none"]
FileOf(doc, layout) == [kind |-> "file", doc |-> doc, layout |-> layout]

\* mcpServerEntry
Entry(command, args) == [Command |-> command, Args |-> args]

\* the config file, whether a temp file exists, and the latest writeConfig
\* call: its arguments, the step that failed, the file it found and the
\* error it returned
FilesOf(file) ==
    [config |-> file, tmp |-> FALSE, n |-> 0, name |-> "", entry |-> Entry("", <<>>),
     fault |-> "none", before |-> file, err |-> "none"]

\* no config file and no temp file
NoFiles == FilesOf(MissingFile)

\* the command line of main: the raw --default-header strings, whether
\* ParseHeaders ran, and the map it returned
CliOf(raw) == [raw |-> raw, parsed |-> FALSE, headers |-> NoHeaders]

\* a command line without --default-header flags
NoCli == CliOf(<<>>)

\* NewClient: the size cap defaults to 51200 when the configured one is <= 0
NewClient(cfg) ==
    [baseURL |-> cfg.BaseURL,
     maxResponseSize |-> IF cfg.MaxResponseSize <= 0
                         THEN DefaultMaxResponseSize
                         ELSE cfg.MaxResponseSize,
     retryCount |-> cfg.RetryCount,
     defaultHeaders |-> cfg.DefaultHeaders,
     timeout |-> cfg.Timeout,
     retryDelay |-> cfg.RetryDelay]

\* the state after NewClient(cfg) for one of the configurations cfgs, with a
\* caller that issues the calls ins
InitClient(cfgs, ins) ==
    /\ config \in cfgs
    /\ client = NewClient(config)
    /\ checkRedirect = "nil"
    /\ inputs = ins
    /\ other = NoOther
    /\ pc = "idle"
    /\ ctx = "background"
    /\ params = NoParams
    /\ requestURL = <<>>
    /\ deadlineLeft = NoLimit
    /\ originalCheckRedirect = "nil"
    /\ attempt = 0
    /\ lastErr = NoErr
    /\ lastResponse = NilResponse
    /\ ret = [response |-> NilResponse, err |-> NoErr]
    /\ calls = 0
    /\ outcomes = <<>>
    /\ nRoundTrips = 0
    /\ nSleeps = 0
    /\ wire = NoWire
    /\ lastReq = NoReq

\* InitClient with the handler idle, no description built and no files
InitWith(cfgs, ins) ==
    /\ InitClient(cfgs, ins)
    /\ tool = NoTool
    /\ description = NoDescription
    /\ fs = NoFiles
    /\ cli = NoCli

Init == InitWith(Configs, BaseInputs)

\* a loop bound that allows one attempt more
maxAttempts_OneMore == client.retryCount + 2

maxAttempts == client.retryCount + 1

\* a return that leaves the policy of the call installed
Return_KeepPolicy(response, err) ==
    /\ ret' = [response |-> response, err |-> err]
    /\ checkRedirect' = checkRedirect
    /\ pc' = "returned"

\* return from ExecuteRequest after the deferred functions were registered:
\* the deferred restore of CheckRedirect runs
Return(response, err) ==
    /\ ret' = [response |-> response, err |-> err]
    /\ checkRedirect' = originalCheckRedirect
    /\ pc' = "returned"

\* ExecuteRequest up to the loop: URL resolution, request context, redirect
\* policy
ExecuteRequest(in) ==
    /\ pc \in {"idle", "returned"}
    /\ calls < MaxCalls
    /\ calls' = calls + 1
    /\ ctx' = in.ctx
    /\ params' = in.params
    /\ outcomes' = <<>>
    /\ nRoundTrips' = 0
    /\ nSleeps' = 0
    /\ wire' = NoWire
    /\ lastReq' = NoReq
    /\ attempt' = 0
    /\ lastErr' = NoErr
    /\ lastResponse' = NilResponse
    /\ LET built == buildRequestURL(client.baseURL, in.params)
       IN IF built[2] # NoErr
          THEN /\ ret' = [response |-> NilResponse, err |-> built[2]]
               /\ pc' = "returned"
               /\ deadlineLeft' = NoLimit
               /\ UNCHANGED <<requestURL, originalCheckRedirect, checkRedirect>>
          ELSE /\ requestURL' = built[1]
               /\ deadlineLeft' = RequestDeadline(in.params.Timeout)
               /\ originalCheckRedirect' = checkRedirect
               /\ checkRedirect' = RedirectPolicy(in.params.FollowRedirects)
               /\ pc' = "loop"
               /\ ret' = [response |-> NilResponse, err |-> NoErr]
    /\ UNCHANGED <<config, ext, client, inputs, other>>

\* loop head that waits before every attempt, the first included
LoopHead_WaitFirst ==
    /\ pc = "loop"
    /\ IF attempt < maxAttempts
       THEN /\ pc' = "sleep"
            /\ UNCHANGED <<ret, checkRedirect>>
       ELSE IF ~lastResponse.isNil
            THEN Return(lastResponse, NoErr)
            ELSE Return(NilResponse, lastErr)
    /\ UNCHANGED <<config, ext, client, inputs, other, loc, calls, hist>>

\* the loop condition and what follows the loop
LoopHead ==
    /\ pc = "loop"
    /\ IF attempt < maxAttempts
       THEN /\ pc' = IF attempt > 0 THEN "sleep" ELSE "attempt"
            /\ UNCHANGED <<ret, checkRedirect>>
       ELSE IF ~lastResponse.isNil
            THEN Return(lastResponse, NoErr)
            ELSE Return(NilResponse, lastErr)
    /\ UNCHANGED <<config, ext, client, inputs, other, loc, calls, hist>>

\* time.Sleep(c.retryDelay) before a retry; the deadline of the request
\* context keeps running
Sleep ==
    /\ pc = "sleep"
    /\ nSleeps' = nSleeps + 1
    /\ deadlineLeft' = Elapse(deadlineLeft, client.retryDelay)
    /\ pc' = "attempt"
    /\ UNCHANGED <<config, ext, client, checkRedirect, inputs, other, ctx, params,
                   requestURL, originalCheckRedirect, attempt, lastErr,
                   lastResponse, ret, calls, outcomes, nRoundTrips, wire,
                   lastReq>>

\* strings.NewReader: a reader over str, positioned at its first byte
NewReader(str) == [data |-> str, pos |-> 0]

\* what the transport sends as the request body: everything the reader it
\* is given still holds
ReadAll(reader) == SubSeq(reader.data, reader.pos + 1, Len(reader.data))

\* no request was built in the attempt
NoRequest ==
    [built |-> FALSE, method |-> <<>>, url |-> <<>>, headers |-> NoHeaders,
     body |-> NoBody]

\* the request doSingleAttempt builds: method and URL as given, the merged
\* headers h, and the body read from a reader created for this attempt
NewRequest(method, url, h, body) ==
    [built |-> TRUE, method |-> method, url |-> url, headers |-> h,
     body |-> ReadAll(NewReader(body))]

\* a URL without a scheme cannot be sent: Do fails before any response
CanRoundTrip(u) == Len(u) > 0 /\ ~HasPrefix(u, "/")

\* what a server can put on the wire: status, body length and declared
\* content length (-1 when not declared)
WireResponses ==
    {w \in Statuses \X BodyLens \X ({0 - 1} \cup BodyLens) :
        w[3] \in {0 - 1, w[2]}}

\* the responses Do can hand back under a redirect policy, each with the
\* number of follow-up requests made: a response is handed back as received;
\* under the default policy a redirect is followed instead, and the response
\* of the target is handed back
HandedBack(policy) ==
    {<<w, 0>> : w \in WireResponses}
    \cup (IF policy = "nil"
          THEN {<<w, 1>> : w \in {x \in WireResponses : x[1] # RedirectStatus}}
          ELSE {})

\* the time limit of the attempt that is about to run
AttemptLimit == TimeLimit(client.timeout, deadlineLeft)

\* Do can reach the server: the context is neither cancelled nor expired
ContextLive == ctx # "cancelled" /\ AttemptLimit # 0

\* the possible results of doSingleAttempt: response, err, whether Do ran,
\* the body the server offered, the follow-up requests and the time spent
AttemptResults ==
    IF ~ValidMethod(params.Method) \/ ~UrlParses(requestURL)
    THEN {[response |-> NilResponse, err |-> ErrCreatingRequest,
           did |-> 0, wire |-> NoWire, followUps |-> 0, spent |-> 0]}
    ELSE {[response |-> NilResponse, err |-> ErrExecuting,
           did |-> 1, wire |-> NoWire, followUps |-> 0, spent |-> t] :
             t \in (IF AttemptLimit = NoLimit THEN {0} ELSE {0, AttemptLimit})}
         \cup
         (IF CanRoundTrip(requestURL) /\ ContextLive
          THEN {[response |-> NilResponse, err |-> ErrReadingBody,
                 did |-> 1, wire |-> NoWire, followUps |-> 0, spent |-> d] :
                   d \in {x \in Durations : Completes(x, AttemptLimit)}}
               \cup
               {LET w == hb[1][1]
                    body == readResponseBody(w[2], w[3], client.maxResponseSize)
                IN [response |-> [isNil |-> FALSE, StatusCode |-> w[1],
                                  BodyLen |-> body.BodyLen,
                                  Truncated |-> body.Truncated,
                                  OriginalSize |-> body.OriginalSize],
                    err |-> NoErr, did |-> 1,
                    wire |-> [avail |-> w[2], contentLength |-> w[3],
                              bytesRead |-> body.BytesRead],
                    followUps |-> hb[1][2], spent |-> hb[2]] :
                  hb \in HandedBack(checkRedirect)
                         \X {x \in Durations : Completes(x, AttemptLimit)}}
          ELSE {})

\* retry decision that does not retry status 500 itself
Classify_NoRetry500(response, attemptErr) ==
    IF attemptErr # NoErr
    THEN IF attempt < maxAttempts - 1 THEN "continue" ELSE "returnErr"
    ELSE IF response.StatusCode >= 400 /\ response.StatusCode < 500
         THEN "return"
         ELSE IF response.StatusCode > 500 /\ attempt < maxAttempts - 1
              THEN "retryResponse"
              ELSE "return"

\* retry decision that treats every status from 400 on as retryable
Classify_Retry4xx(response, attemptErr) ==
    IF attemptErr # NoErr
    THEN IF attempt < maxAttempts - 1 THEN "continue" ELSE "returnErr"
    ELSE IF response.StatusCode >= 400 /\ attempt < maxAttempts - 1
         THEN "retryResponse"
         ELSE "return"

\* retry decision that returns an attempt error at once
Classify_NoRetryErr(response, attemptErr) ==
    IF attemptErr # NoErr
    THEN "returnErr"
    ELSE IF response.StatusCode >= 400 /\ response.StatusCode < 500
         THEN "return"
         ELSE IF response.StatusCode >= 500 /\ attempt < maxAttempts - 1
              THEN "retryResponse"
              ELSE "return"

\* retry decision that also retries redirect-class statuses
Classify_Retry3xx(response, attemptErr) ==
    IF attemptErr # NoErr
    THEN IF attempt < maxAttempts - 1 THEN "continue" ELSE "returnErr"
    ELSE IF response.StatusCode >= 400 /\ response.StatusCode < 500
         THEN "return"
         ELSE IF response.StatusCode >= 300 /\ attempt < maxAttempts - 1
              THEN "retryResponse"
              ELSE "return"

\* retry decision that goes round the loop again after a failed last attempt
Classify_ContinueOnLast(response, attemptErr) ==
    IF attemptErr # NoErr
    THEN "continue"
    ELSE IF response.StatusCode >= 400 /\ response.StatusCode < 500
         THEN "return"
         ELSE IF response.StatusCode >= 500 /\ attempt < maxAttempts - 1
              THEN "retryResponse"
              ELSE "return"

\* the retry decision of ExecuteRequest on the result of one attempt
Classify(response, attemptErr) ==
    IF attemptErr # NoErr
    THEN IF attempt < maxAttempts - 1 THEN "continue" ELSE "returnErr"
    ELSE IF response.StatusCode >= 400 /\ response.StatusCode < 500
         THEN "return"
         ELSE IF response.StatusCode >= 500 /\ attempt < maxAttempts - 1
              THEN "retryResponse"
              ELSE "return"

\* one doSingleAttempt and the handling of its result in the loop body
DoSingleAttempt ==
    /\ pc = "attempt"
    /\ \E r \in AttemptResults,
          h \in SentHeaders(client.defaultHeaders, params.Headers) :
         LET decision == Classify(r.response, r.err)
             built == r.err # ErrCreatingRequest
         IN /\ outcomes' = Append(outcomes,
                              [err |-> r.err, status |-> r.response.StatusCode,
                               req |-> IF built
                                       THEN NewRequest(params.Method, requestURL,
                                                       h, params.Body)
                                       ELSE NoRequest])
            /\ nRoundTrips' = nRoundTrips + r.did
            /\ wire' = r.wire
            /\ lastReq' = IF built
                          THEN [headers |-> h, policy |-> checkRedirect,
                                followUps |-> r.followUps,
                                limit |-> AttemptLimit]
                          ELSE NoReq
            /\ client' = IF built
                         THEN [client EXCEPT !.defaultHeaders =
                                 StoredDefaults(client.defaultHeaders,
                                                params.Headers)]
                         ELSE client
            /\ deadlineLeft' = Elapse(deadlineLeft, r.spent)
            /\ lastErr' = IF r.err # NoErr THEN r.err ELSE lastErr
            /\ lastResponse' = IF decision = "retryResponse"
                               THEN r.response ELSE lastResponse
            /\ IF decision \in {"continue", "retryResponse"}
               THEN /\ attempt' = attempt + 1
                    /\ pc' = "loop"
                    /\ UNCHANGED <<ret, checkRedirect>>
               ELSE /\ attempt' = attempt
                    /\ IF decision = "returnErr"
                       THEN Return(NilResponse, r.err)
                       ELSE Return(r.response, NoErr)
    /\ UNCHANGED <<config, ext, inputs, other, ctx, params, requestURL,
                   originalCheckRedirect, calls, nSleeps>>

\* the caller cancels the context of the call in progress
CancelCaller ==
    /\ ctx = "cancellable"
    /\ pc \in {"loop", "sleep", "attempt"}
    /\ ctx' = "cancelled"
    /\ UNCHANGED <<config, ext, client, checkRedirect, inputs, other, pc, params,
                   requestURL, deadlineLeft, originalCheckRedirect, attempt,
                   lastErr, lastResponse, ret, calls, hist>>

\* a second ExecuteRequest call on the same Client, reduced to its accesses
\* to the shared CheckRedirect: it saves the field and installs its policy
OtherEnter(f) ==
    /\ other.pc = "idle"
    /\ other' = [pc |-> "running", follow |-> f, original |-> checkRedirect,
                 seen |-> "none"]
    /\ checkRedirect' = RedirectPolicy(f)
    /\ UNCHANGED <<config, ext, client, inputs, pc, loc, ret, calls, hist>>

\* an attempt of the second call: Do reads the shared CheckRedirect
OtherAttempt ==
    /\ other.pc = "running"
    /\ other.seen = "none"
    /\ other' = [other EXCEPT !.seen = checkRedirect]
    /\ UNCHANGED <<config, ext, client, checkRedirect, inputs, pc, loc, ret, calls,
                   hist>>

\* the second call returns: its deferred restore of CheckRedirect runs
OtherReturn ==
    /\ other.pc = "running"
    /\ other' = [other EXCEPT !.pc = "returned"]
    /\ checkRedirect' = other.original
    /\ UNCHANGED <<config, ext, client, inputs, pc, loc, ret, calls, hist>>

Next ==
    \/ \E in \in inputs : ExecuteRequest(in)
    \/ LoopHead
    \/ Sleep
    \/ DoSingleAttempt

Spec == Init /\ [][Next]_vars

\* -------------------------------------------------- URL specification
URLBases == {<<>>, <<"h", ":">>, <<"h", ":", "/", "/">>}

URLConfigs ==
    [BaseURL : URLBases, MaxResponseSize : {2}, RetryCount : {1},
     DefaultHeaders : {NoHeaders}, Timeout : {ClientTimeout}, RetryDelay : {1}]

URLsToResolve ==
    {RelativeURL,
     <<"/", "x", "?", "b", "=", "1", "&", "a", "=", "1", "&", "b", "=", "2">>,
     <<"x">>,
     AbsoluteURL,
     <<"h", ":", "/", "x", "?", "x", "=", "1", "&", "a", "=", "1", "&", "a", "=", "2">>}

QueryMaps ==
    {NoQuery, SomeQuery,
     (<<"b">> :> <<"2">>) @@ (<<"a">> :> <<"1">>),
     (<<"x", "x">> :> <<"2">>) @@ (<<"h">> :> <<>>)}

URLInputs ==
    {Call("background", Param(GET, u, q, TRUE)) :
        u \in URLsToResolve, q \in QueryMaps}

InitURL == InitWith(URLConfigs, URLInputs)

\* calls with relative and absolute URLs and query parameters, on clients
\* with and without a base URL
SpecURL == InitURL /\ [][Next]_vars

\* ----------------------------------------------- header specification
\* header names that differ in letter case only, and one that stands alone
HeaderNames == {<<"x", "-", "a">>, <<"X", "-", "A">>, <<"b">>}

\* a header map over the names ns; the value tells the map (tag) and the name
HeaderMap(tag, ns) ==
    [n \in ns |->
        CASE n = <<"x", "-", "a">> -> <<tag, "x-a">>
          [] n = <<"X", "-", "A">> -> <<tag, "X-A">>
          [] OTHER -> <<tag, "b">>]

HdrConfigs ==
    [BaseURL : {<<>>}, MaxResponseSize : {2}, RetryCount : {1},
     DefaultHeaders : {HeaderMap("default", ns) : ns \in SUBSET HeaderNames},
     Timeout : {ClientTimeout}, RetryDelay : {1}]

HdrInputs ==
    {Call("background",
          WithBody(ParamFull(POST, AbsoluteURL, HeaderMap("call", ns), NoQuery,
                             0, TRUE),
                   <<"{", "}">>)) :
        ns \in SUBSET HeaderNames}

InitHdr == InitWith(HdrConfigs, HdrInputs)

\* calls with every combination of default and per-call header names
SpecHdr == InitHdr /\ [][Next]_vars

\* ------------------------------------------------ timeout specification
TimeConfigs ==
    [BaseURL : {<<>>}, MaxResponseSize : {2}, RetryCount : {1},
     DefaultHeaders : {SomeDefaults}, Timeout : {ClientTimeout},
     RetryDelay : {1}]

\* per-call timeouts: none, shorter and longer than the client's
CallTimeouts == {0, 1, ClientTimeout + 1}

CallHeaders == {NoHeaders, <<"b">> :> "p1", <<"c">> :> "p2"}

TimeInputs ==
    {Call(c, ParamFull(GET, AbsoluteURL, h, NoQuery, t, TRUE)) :
        c \in {"background", "cancellable"}, h \in CallHeaders,
        t \in CallTimeouts}

InitTime == InitWith(TimeConfigs, TimeInputs)

NextTime ==
    \/ Next
    \/ CancelCaller

\* sequential calls with per-call timeouts and headers, under contexts the
\* caller may cancel
SpecTime == InitTime /\ [][NextTime]_vars

\* -------------------------------------------- overlapping calls
ConcConfigs ==
    [BaseURL : {<<>>}, MaxResponseSize : {2}, RetryCount : {1},
     DefaultHeaders : {NoHeaders}, Timeout : {ClientTimeout},
     RetryDelay : {1}]

ConcInputs ==
    {Call("background", Param(GET, AbsoluteURL, NoQuery, f)) : f \in BOOLEAN}

InitConc == InitWith(ConcConfigs, ConcInputs)

NextConc ==
    \/ Next
    \/ \E f \in BOOLEAN : OtherEnter(f)
    \/ OtherAttempt
    \/ OtherReturn

\* calls on one Client that a second ExecuteRequest call may overlap
SpecConc == InitConc /\ [][NextConc]_vars


\* ------------------------------------------------- http_request handler
PUT == <<"P", "U", "T">>
DELETE == <<"D", "E", "L", "E", "T", "E">>
PATCH == <<"P", "A", "T", "C", "H">>
HEAD == <<"H", "E", "A", "D">>
OPTIONS == <<"O", "P", "T", "I", "O", "N", "S">>

validMethods == {GET, POST, PUT, DELETE, PATCH, HEAD, OPTIONS}

\* strings.ToUpper
ToUpperString(str) == [i \in 1..Len(str) |-> ToUpper(str[i])]

DecimalDigits == <<"0", "1", "2", "3", "4", "5", "6", "7", "8", "9">>
IsDigit(c) == \E i \in 1..10 : DecimalDigits[i] = c
DigitValue(c) == (CHOOSE i \in 1..10 : DecimalDigits[i] = c) - 1

\* the time units of ParseDuration that are whole model time units (seconds)
UnitSeconds(u) ==
    CASE u = "s" -> 1 [] u = "m" -> 60 [] u = "h" -> 3600 [] OTHER -> 0

\* the groups "<digits><unit>" of a duration string, from position i on,
\* with n the digits read of the current group (-1: none) and total the sum
\* of the groups read
RECURSIVE ParseGroups(_, _, _, _)
ParseGroups(str, i, n, total) ==
    IF i > Len(str)
    THEN [ok |-> n = 0 - 1, d |-> total]
    ELSE IF IsDigit(str[i])
         THEN ParseGroups(str, i + 1,
                          (IF n = 0 - 1 THEN 0 ELSE n * 10) + DigitValue(str[i]),
                          total)
         ELSE IF n = 0 - 1 \/ UnitSeconds(str[i]) = 0
              THEN [ok |-> FALSE, d |-> 0]
              ELSE ParseGroups(str, i + 1, 0 - 1,
                               total + n * UnitSeconds(str[i]))

\* time.ParseDuration on strings of whole seconds, minutes and hours: an
\* optional sign, then "0" or one or more groups of digits and a unit
ParseDuration(str) ==
    LET signed == HasPrefix(str, "-") \/ HasPrefix(str, "+")
        rest == IF signed THEN Tail(str) ELSE str
        groups == ParseGroups(rest, 1, 0 - 1, 0)
    IN IF rest = <<"0">> THEN [ok |-> TRUE, d |-> 0]
       ELSE IF rest = <<>> \/ ~groups.ok THEN [ok |-> FALSE, d |-> 0]
       ELSE [ok |-> TRUE,
             d |-> IF HasPrefix(str, "-") THEN 0 - groups.d ELSE groups.d]

\* a default that an explicit false cannot override
OrDefault_Or(ptr, def) == (ptr.set /\ ptr.val) \/ def

\* "x := def; if ptr != nil { x = *ptr }"
OrDefault(ptr, def) == IF ptr.set THEN ptr.val ELSE def

Rejected(head, method, err) ==
    [ok |-> FALSE, result |-> Result(TRUE, TextOf(head, method, err, NoFormatted)),
     params |-> NoParams, includeHeaders |-> FALSE]

\* the RequestParams the handler builds from a valid input
ParamsOf(input) ==
    [ok |-> TRUE, result |-> NoResult,
     params |-> ParamFull(ToUpperString(input.Method), input.URL,
                          input.Headers, input.QueryParams,
                          IF input.Timeout # <<>>
                          THEN ParseDuration(input.Timeout).d ELSE 0,
                          OrDefault(input.FollowRedirects, TRUE)),
     includeHeaders |-> OrDefault(input.IncludeResponseHeaders, FALSE)]

\* validation that looks at the URL before the method
Validate_URLFirst(input) ==
    IF input.URL = <<>>
    THEN Rejected("url is required", <<>>, NoErr)
    ELSE IF input.Method = <<>>
    THEN Rejected("method is required", <<>>, NoErr)
    ELSE IF ToUpperString(input.Method) \notin validMethods
    THEN Rejected("unsupported method: ", input.Method, NoErr)
    ELSE IF input.Timeout # <<>> /\ ~ParseDuration(input.Timeout).ok
    THEN Rejected("invalid timeout: ", <<>>, "time: invalid duration")
    ELSE ParamsOf(input)

\* the handler up to the call of ExecuteRequest: the checks of the input, in
\* the order of the code, and the RequestParams built from a valid input
Validate(input) ==
    IF input.Method = <<>>
    THEN Rejected("method is required", <<>>, NoErr)
    ELSE IF ToUpperString(input.Method) \notin validMethods
    THEN Rejected("unsupported method: ", input.Method, NoErr)
    ELSE IF input.URL = <<>>
    THEN Rejected("url is required", <<>>, NoErr)
    ELSE IF input.Timeout # <<>> /\ ~ParseDuration(input.Timeout).ok
    THEN Rejected("invalid timeout: ", <<>>, "time: invalid duration")
    ELSE ParamsOf(input)

\* FormatResponse: the status line, whether the headers block is asked for,
\* the body or "(empty body)", and the truncation note
FormatResponse(resp, includeHeaders) ==
    [StatusCode |-> resp.StatusCode,
     headers |-> includeHeaders,
     emptyBody |-> resp.BodyLen = 0,
     shown |-> resp.BodyLen,
     note |-> IF ~resp.Truncated THEN "none"
              ELSE IF resp.OriginalSize > 0 THEN "showing n of m bytes"
              ELSE "showing first n bytes",
     of |-> IF resp.Truncated /\ resp.OriginalSize > 0
            THEN resp.OriginalSize ELSE 0]

\* a handler that reports statuses from 400 on as errors
HandlerResult_ErrorOn4xx(resp, err, includeHeaders) ==
    IF err # NoErr
    THEN Result(TRUE, TextOf("Request failed: ", <<>>, err, NoFormatted))
    ELSE IF resp.StatusCode >= 400
    THEN Result(TRUE, TextOf("Request failed: ", <<>>, "status", NoFormatted))
    ELSE Result(FALSE, TextOf("", <<>>, NoErr,
                              FormatResponse(resp, includeHeaders)))

\* the handler after ExecuteRequest returned (resp, err)
HandlerResult(resp, err, includeHeaders) ==
    IF err # NoErr
    THEN Result(TRUE, TextOf("Request failed: ", <<>>, err, NoFormatted))
    ELSE Result(FALSE, TextOf("", <<>>, NoErr,
                              FormatResponse(resp, includeHeaders)))

\* FormatResponse dereferences resp: a nil resp with a nil err panics
HandlerPanics(resp, err) == err = NoErr /\ resp.isNil

\* the handler is invoked: it validates the input and either returns a
\* rejection or goes on to call ExecuteRequest
HandlerEnter(input) ==
    /\ tool.pc \in {"idle", "done"}
    /\ pc \in {"idle", "returned"}
    /\ tool.n < MaxCalls
    /\ LET v == Validate(input)
       IN tool' = [pc |-> IF v.ok THEN "validated" ELSE "done",
                   input |-> input, seq |-> calls, n |-> tool.n + 1,
                   params |-> v.params,
                   includeHeaders |-> v.includeHeaders, result |-> v.result]
    /\ UNCHANGED <<config, client, checkRedirect, inputs, other, pc, loc, ret,
                   calls, hist, description, fs, cli>>

\* the handler calls ExecuteRequest with the RequestParams it built
HandlerInvoke ==
    /\ tool.pc = "validated"
    /\ tool.seq = calls
    /\ ExecuteRequest(Call("background", tool.params))

\* ExecuteRequest returned to the handler, which builds its result
HandlerReturn ==
    /\ tool.pc = "validated"
    /\ calls = tool.seq + 1
    /\ pc = "returned"
    /\ tool' = IF HandlerPanics(ret.response, ret.err)
               THEN [tool EXCEPT !.pc = "panicked"]
               ELSE [tool EXCEPT !.pc = "done",
                                 !.result = HandlerResult(ret.response, ret.err,
                                                          tool.includeHeaders)]
    /\ UNCHANGED <<config, client, checkRedirect, inputs, other, pc, loc, ret,
                   calls, hist, description, fs, cli>>

ToolConfigs ==
    [BaseURL : {<<>>}, MaxResponseSize : {2}, RetryCount : {0 - 1, 1},
     DefaultHeaders : {NoHeaders}, Timeout : {ClientTimeout}, RetryDelay : {1}]

OptionalBools == {NilBool, PtrTo(TRUE), PtrTo(FALSE)}

\* the tool inputs explored: inputs that fail one or several of the checks,
\* and valid inputs with every combination of the optional booleans
ToolInputs ==
    {ToolInput(<<>>, <<>>, <<"x">>, NilBool, NilBool),
     ToolInput(<<>>, AbsoluteURL, <<>>, NilBool, NilBool),
     ToolInput(<<"B", "A", "D">>, <<>>, <<"x">>, NilBool, NilBool),
     ToolInput(<<"B", "A", "D">>, AbsoluteURL, <<"1", "s">>, NilBool, NilBool),
     ToolInput(GET, <<>>, <<"x">>, NilBool, NilBool),
     ToolInput(<<"g", "e", "t">>, AbsoluteURL, <<"x">>, NilBool, NilBool),
     ToolInput(GET, AbsoluteURL, <<"1">>, NilBool, NilBool),
     ToolInput(<<"g", "e", "t">>, AbsoluteURL, <<"1", "s">>, NilBool, NilBool)}
    \cup {ToolInput(GET, AbsoluteURL, <<>>, f, i) :
            f \in OptionalBools, i \in OptionalBools}

InitTool == InitWith(ToolConfigs, {})

NextTool ==
    \/ \E in \in ToolInputs : HandlerEnter(in)
    \/ HandlerInvoke
    \/ HandlerReturn
    \/ LoopHead
    \/ Sleep
    \/ DoSingleAttempt

\* calls of the http_request tool handler on one Client
SpecTool == InitTool /\ [][NextTool]_vars

\* ----------------------------------------------------- tool description
\* strings.ToLower
ToLowerString(str) == [i \in 1..Len(str) |-> ToLower(str[i])]

sensitiveHeaderNames ==
    {<<"a", "u", "t", "h", "o", "r", "i", "z", "a", "t", "i", "o", "n">>,
     <<"p", "r", "o", "x", "y", "-", "a", "u", "t", "h", "o", "r", "i", "z", "a", "t", "i", "o", "n">>,
     <<"x", "-", "a", "p", "i", "-", "k", "e", "y">>,
     <<"x", "-", "a", "u", "t", "h", "-", "t", "o", "k", "e", "n">>}

\* censoring that compares the name as written
censorHeaderValue_CaseSensitive(name, value) ==
    IF name \in sensitiveHeaderNames THEN "***" ELSE value

censorHeaderValue(name, value) ==
    IF ToLowerString(name) \in sensitiveHeaderNames THEN "***" ELSE value

\* the characters of header names, in byte order
NameBytes == <<"-">> \o DecimalDigits \o UpperCase \o LowerCase
ByteRank(c) == CHOOSE i \in 1..Len(NameBytes) : NameBytes[i] = c

\* Go's string comparison a < b on header names
RECURSIVE NameLess(_, _)
NameLess(a, b) ==
    IF b = <<>> THEN FALSE
    ELSE IF a = <<>> THEN TRUE
    ELSE IF a[1] # b[1] THEN ByteRank(a[1]) < ByteRank(b[1])
    ELSE NameLess(Tail(a), Tail(b))

\* sort.Strings on the keys of the default headers
RECURSIVE SortStrings(_)
SortStrings(keys) ==
    IF keys = {} THEN <<>>
    ELSE LET first == CHOOSE k \in keys : \A o \in keys \ {k} : NameLess(k, o)
         IN <<first>> \o SortStrings(keys \ {first})

\* strings.Join(headerParts, ", ") of the parts "name: value" of the keys
RECURSIVE HeaderParts(_, _)
HeaderParts(keys, headers) ==
    IF keys = <<>> THEN <<>>
    ELSE keys[1] \o <<": ", censorHeaderValue(keys[1], headers[keys[1]])>>
         \o (IF Len(keys) > 1 THEN <<", ">> ELSE <<>>)
         \o HeaderParts(Tail(keys), headers)

\* buildToolDescription: the description as a sequence of pieces, the fixed
\* texts and the header values as one piece each, names and the base URL
\* character by character
buildToolDescription(cfg) ==
    <<"Make HTTP requests. (...) redirects, and timeout.">>
    \o (IF cfg.BaseURL # <<>>
        THEN <<" Base URL: ">> \o cfg.BaseURL
             \o <<" - use relative paths like /api/endpoint.">>
        ELSE <<>>)
    \o (IF DOMAIN cfg.DefaultHeaders # {}
        THEN <<" Default headers: ">>
             \o HeaderParts(SortStrings(DOMAIN cfg.DefaultHeaders),
                            cfg.DefaultHeaders)
             \o <<".">>
        ELSE <<>>)

\* tools.Register: the description of the tool is built from the config
Register ==
    /\ description = NoDescription
    /\ description' = buildToolDescription(config)
    /\ UNCHANGED <<config, client, checkRedirect, inputs, other, pc, loc, ret,
                   calls, hist, tool, fs, cli>>

DescHeaderNames ==
    {<<"A", "u", "t", "h", "o", "r", "i", "z", "a", "t", "i", "o", "n">>,
     <<"X", "-", "A", "P", "I", "-", "K", "e", "y">>,
     <<"x", "-", "a", "u", "t", "h", "-", "t", "o", "k", "e", "n">>,
     <<"p", "r", "o", "x", "y", "-", "a", "u", "t", "h", "o", "r", "i", "z", "a", "t", "i", "o", "n">>,
     <<"A", "c", "c", "e", "p", "t">>}

DescValues == {"v1", "v2"}

DescHeaderMaps ==
    UNION {[ns -> DescValues] : ns \in SUBSET DescHeaderNames}

DescConfigs ==
    [BaseURL : BaseURLs, MaxResponseSize : {2}, RetryCount : {0},
     DefaultHeaders : DescHeaderMaps, Timeout : {ClientTimeout},
     RetryDelay : {1}]

InitDesc == InitWith(DescConfigs, {})

NextDesc == Register

\* registration of the tool for configurations with sensitive and other
\* default headers
SpecDesc == InitDesc /\ [][NextDesc]_vars

\* ------------------------------------------------------------- register
\* bits of the mantissa of a float64 (53 of 64), at the width of the model
MantissaBits == IntBits - 11

\* the float64 nearest to a non-negative integer, ties to even, as the
\* integer it is printed as
Float64(n) ==
    IF n < 2^MantissaBits
    THEN n
    ELSE LET e == CHOOSE k \in 1..IntBits :
                      n < 2^(MantissaBits + k) /\ n >= 2^(MantissaBits + k - 1)
             step == 2^e
             q == n \div step
             r == n % step
             up == r * 2 > step \/ (r * 2 = step /\ q % 2 = 1)
         IN (IF up THEN q + 1 ELSE q) * step

\* json.Unmarshal into interface{}: numbers become float64, objects
\* map[string]interface{}, arrays []interface{}
RECURSIVE Decode(_)
Decode(j) ==
    CASE j.t = "num" -> JNum(Float64(j.v))
      [] j.t = "obj" -> JObj([k \in DOMAIN j.v |-> Decode(j.v[k])])
      [] j.t = "arr" -> JArr([i \in DOMAIN j.v |-> Decode(j.v[i])])
      [] OTHER -> j

\* json.Unmarshal(data, &config) with config an empty map: an object fills
\* the map, null leaves it empty, anything else is an error
Unmarshal(doc) ==
    CASE doc.t = "obj" -> [ok |-> TRUE, config |-> Decode(doc).v]
      [] doc.t = "null" -> [ok |-> TRUE, config |-> <<>>]
      [] OTHER -> [ok |-> FALSE, config |-> <<>>]

\* json.Marshal of an mcpServerEntry
EntryJSON(entry) ==
    JObj(("command" :> JStr(entry.Command))
         @@ ("args" :> JArr([i \in DOMAIN entry.Args |-> JStr(entry.Args[i])])))

\* config["mcpServers"].(map[string]interface{}), a new map when the key is
\* absent or holds something else
ServersOf(cfg) ==
    IF "mcpServers" \in DOMAIN cfg /\ cfg["mcpServers"].t = "obj"
    THEN cfg["mcpServers"].v
    ELSE <<>>

\* servers[serverName] = entry; config["mcpServers"] = servers
WithEntry(cfg, serverName, entry) ==
    ("mcpServers" :> JObj((serverName :> EntryJSON(entry)) @@ ServersOf(cfg)))
    @@ cfg

\* the steps of writeConfig that can fail for reasons outside the program
Faults == {"none", "read", "createTemp", "write", "close", "rename"}

\* the temp file exists when the step fails
TempCreated(fault) == fault \in {"write", "close", "rename"}

\* cleanup that forgets the failed rename
RemovesTemp_NotOnRename(fault) == fault \in {"write", "close"}

\* the failure branches that call os.Remove(tmpPath)
RemovesTemp(fault) == fault \in {"write", "close", "rename"}

\* writeConfig on the files fs0, with the step that fails (if any): the
\* files afterwards and the error returned
writeConfig(fs0, serverName, entry, fault) ==
    LET call == [fs0 EXCEPT !.n = fs0.n + 1, !.name = serverName,
                            !.entry = entry, !.fault = fault,
                            !.before = fs0.config]
        exists == fs0.config.kind = "file"
        parsed == IF exists THEN Unmarshal(fs0.config.doc)
                  ELSE [ok |-> TRUE, config |-> <<>>]
        output == JObj(WithEntry(parsed.config, serverName, entry))
        failed(err) ==
            [call EXCEPT !.err = err,
                         !.tmp = fs0.tmp \/ (TempCreated(fault)
                                              /\ ~RemovesTemp(fault))]
    IN IF fault = "read" THEN [call EXCEPT !.err = "reading"]
       ELSE IF ~parsed.ok THEN [call EXCEPT !.err = "parsing"]
       ELSE IF fault = "createTemp" THEN failed("creating temp file")
       ELSE IF fault = "write" THEN failed("writing temp file")
       ELSE IF fault = "close" THEN failed("closing temp file")
       ELSE IF fault = "rename" THEN failed("renaming")
       ELSE [call EXCEPT !.err = "nil",
                         !.config = FileOf(output, "indented")]

\* the number that is the first not to survive the conversion to float64
BigNumber == 2^MantissaBits + 1

RegNames == {"a", "c"}
RegEntries == {Entry("cmd", <<>>), Entry("bin", <<"--base-url", "h">>)}

OldEntry == EntryJSON(Entry("old", <<"--old">>))
NumberedEntry(n) ==
    JObj(("command" :> JStr("srv")) @@ ("args" :> JArr(<<>>))
         @@ ("port" :> JNum(n)))

\* the config files found by register
RegFiles ==
    {MissingFile,
     FileOf(JInvalid, "hand"),
     FileOf(JNull, "hand"),
     FileOf(JArr(<<>>), "hand"),
     FileOf(JObj("theme" :> JStr("dark")), "hand"),
     FileOf(JObj("mcpServers" :> JArr(<<>>)), "hand"),
     FileOf(JObj(("mcpServers" :> JObj(("a" :> OldEntry) @@ ("b" :> OldEntry)))
                 @@ ("theme" :> JStr("dark"))), "hand"),
     FileOf(JObj("mcpServers" :> JObj("b" :> NumberedEntry(8))), "indented"),
     FileOf(JObj("mcpServers" :> JObj("b" :> NumberedEntry(BigNumber))), "hand")}

\* one run of "register": writeConfig with a server name and an entry
WriteConfig(serverName, entry, fault) ==
    /\ fs.n < MaxCalls
    /\ fs' = writeConfig(fs, serverName, entry, fault)
    /\ UNCHANGED <<config, client, checkRedirect, inputs, other, pc, loc, ret,
                   calls, hist, tool, description, cli>>

InitReg ==
    /\ InitClient(ToolConfigs, {})
    /\ tool = NoTool
    /\ description = NoDescription
    /\ fs \in {FilesOf(f) : f \in RegFiles}
    /\ cli = NoCli

NextReg ==
    \E serverName \in RegNames, entry \in RegEntries, fault \in Faults :
        WriteConfig(serverName, entry, fault)

\* runs of "register" on a config file that is absent, broken or present
SpecReg == InitReg /\ [][NextReg]_vars

\* ------------------------------------------------ default-header flags
\* strings.LastIndex in place of strings.Index
IndexColonSpace_Last(h) ==
    LET hits == {i \in 1..(Len(h) - 1) : h[i] = ":" /\ h[i + 1] = " "}
    IN IF hits = {}
       THEN 0 - 1
       ELSE (CHOOSE i \in hits : \A j \in hits : i >= j) - 1

\* strings.Index(h, ": "): the index, counted from 0, of the first ": " in
\* h, and -1 when h holds none
IndexColonSpace(h) ==
    LET hits == {i \in 1..(Len(h) - 1) : h[i] = ":" /\ h[i + 1] = " "}
    IN IF hits = {}
       THEN 0 - 1
       ELSE (CHOOSE i \in hits : \A j \in hits : i <= j) - 1

\* the loop of ParseHeaders from the k-th raw string on
RECURSIVE ParseHeadersFrom(_, _, _)
ParseHeadersFrom(raw, k, headers) ==
    IF k > Len(raw)
    THEN headers
    ELSE LET h == raw[k]
             idx == IndexColonSpace(h)
         IN ParseHeadersFrom(raw, k + 1,
                IF idx > 0
                THEN (SubSeq(h, 1, idx) :> SubSeq(h, idx + 3, Len(h))) @@ headers
                ELSE headers)

\* ParseHeaders: the map of the raw "Name: Value" strings
ParseHeaders(raw) == ParseHeadersFrom(raw, 1, NoHeaders)

\* main: the --default-header flags are parsed into Config.DefaultHeaders
\* and the Client is built from that Config
ParseFlags ==
    /\ ~cli.parsed
    /\ cli' = [cli EXCEPT !.parsed = TRUE, !.headers = ParseHeaders(cli.raw)]
    /\ config' = [config EXCEPT !.DefaultHeaders = ParseHeaders(cli.raw)]
    /\ client' = NewClient(config')
    /\ UNCHANGED <<checkRedirect, inputs, other, pc, loc, ret, calls, hist, tool,
                   description, fs>>

\* raw strings: well formed, with a later ": " in the value, without ": ",
\* beginning with ": ", empty, with an empty value, with a blank name
RawHeaders ==
    {<<"k", ":", " ", "v">>,
     <<"k", ":", " ", "w">>,
     <<"j", ":", " ", "v">>,
     <<"k", ":", " ", "v", ":", " ", "w">>,
     <<"k", ":", "v">>,
     <<":", " ", "v">>,
     <<":", " ", "k", ":", " ", "v">>,
     <<>>,
     <<"k", ":", " ">>,
     <<"k">>,
     <<" ", ":", " ", "v">>}

\* the command lines explored: no, one or two --default-header flags
RawLists ==
    {<<>>} \cup {<<a>> : a \in RawHeaders}
           \cup {<<a, b>> : a \in RawHeaders, b \in RawHeaders}

InitParse ==
    /\ InitClient(ToolConfigs, {})
    /\ tool = NoTool
    /\ description = NoDescription
    /\ fs = NoFiles
    /\ cli \in {CliOf(raw) : raw \in RawLists}

NextParse == ParseFlags

\* main parsing the --default-header flags of its command line
SpecParse == InitParse /\ [][NextParse]_vars

\* ------------------------------------------------------------ vocabulary
Done == pc = "returned"
NAttempts == Len(outcomes)
ReachedLoop == ret.err # ErrParsingURL
IsResponse(o) == o.err = NoErr
Is4xx(o) == IsResponse(o) /\ o.status >= 400 /\ o.status < 500
Is5xx(o) == IsResponse(o) /\ o.status >= 500 /\ o.status <= 599
IsNetworkError(o) == o.err = ErrExecuting
Retryable(o) == IsNetworkError(o) \/ Is5xx(o)

\* the size cap the configuration stands for
EffectiveCap ==
    IF config.MaxResponseSize > 0
    THEN config.MaxResponseSize
    ELSE DefaultMaxResponseSize

\* the returned response is the one received in the latest attempt
ReturnsLatestResponse ==
    /\ ret.err = NoErr
    /\ ~ret.response.isNil
    /\ IsResponse(outcomes[NAttempts])
    /\ ret.response.StatusCode = outcomes[NAttempts].status
    /\ ret.response.BodyLen = Min(wire.bytesRead, client.maxResponseSize)

\* ------------------------------------------------------------------ claims

\* C1: with retryCount = N >= 0, a call whose attempts all yield a 5xx
\* response makes exactly N+1 attempts and returns the response of the final
\* attempt with a nil error.
C1_Exhausted5xxReturnsResponse ==
    (/\ Done
     /\ client.retryCount >= 0
     /\ NAttempts >= 1
     /\ \A i \in 1..NAttempts : Is5xx(outcomes[i]))
    => (/\ NAttempts = client.retryCount + 1
        /\ nRoundTrips = client.retryCount + 1
        /\ ReturnsLatestResponse)

C1_Witness ==
    /\ Done
    /\ client.retryCount = 2
    /\ NAttempts = 3
    /\ \A i \in 1..NAttempts : Is5xx(outcomes[i])
    /\ outcomes[1].status = 500
    /\ ret.response.StatusCode = 599
    /\ ret.err = NoErr

\* C2: a response with a status in [400,500) at any attempt ends the call at
\* that attempt: it is returned with a nil error, no further attempt and no
\* further retry wait follow.
C2_4xxEndsCall ==
    \A i \in 1..NAttempts :
        Is4xx(outcomes[i])
        => (/\ Done
            /\ i = NAttempts
            /\ nSleeps = i - 1
            /\ ret.err = NoErr
            /\ ret.response.StatusCode = outcomes[i].status)

C2_Witness ==
    /\ Done
    /\ client.retryCount = 2
    /\ NAttempts = 2
    /\ Is5xx(outcomes[1])
    /\ Is4xx(outcomes[2])
    /\ ret.response.StatusCode = 499

\* C3: with retryCount = N >= 0, a call whose attempts all fail with a
\* network error makes exactly N+1 attempts and returns a nil response and
\* the network error.
C3_NetworkErrorExhausts ==
    (/\ Done
     /\ client.retryCount >= 0
     /\ NAttempts >= 1
     /\ \A i \in 1..NAttempts : IsNetworkError(outcomes[i]))
    => (/\ NAttempts = client.retryCount + 1
        /\ nRoundTrips = client.retryCount + 1
        /\ ret.response.isNil
        /\ ret.err = ErrExecuting)

C3_Witness ==
    /\ Done
    /\ client.retryCount = 2
    /\ NAttempts = 3
    /\ nRoundTrips = 3
    /\ \A i \in 1..NAttempts : IsNetworkError(outcomes[i])
    /\ ret.err = ErrExecuting

\* C4: when attempts 0..k-1 each end in a network error or a 5xx response
\* and attempt k answers with a status below 400, the call returns that
\* response with a nil error after exactly k+1 attempts.
C4_SuccessAfterRetries ==
    \A k \in 1..NAttempts :
        (/\ IsResponse(outcomes[k])
         /\ outcomes[k].status < 400
         /\ \A j \in 1..(k - 1) : Retryable(outcomes[j]))
        => (/\ Done
            /\ NAttempts = k
            /\ ReturnsLatestResponse)

C4_Witness ==
    /\ Done
    /\ client.retryCount = 2
    /\ NAttempts = 2
    /\ IsNetworkError(outcomes[1])
    /\ outcomes[2].err = NoErr
    /\ outcomes[2].status = 200
    /\ ret.response.StatusCode = 200

\* C5: a failure to read the body of a received response is not retried: it
\* ends the call at the attempt where it occurs.
C5_BodyReadErrorNotRetried ==
    \A i \in 1..NAttempts :
        outcomes[i].err = ErrReadingBody => (Done /\ i = NAttempts)

\* C6: a failure to construct the request is fatal: the call returns that
\* error after the first failure, without a retry wait or a further attempt.
C6_ConstructionErrorFatal ==
    \A i \in 1..NAttempts :
        outcomes[i].err = ErrCreatingRequest
        => (/\ Done
            /\ NAttempts = 1
            /\ nSleeps = 0
            /\ ret.err = ErrCreatingRequest)

\* C7: when the resolved request URL does not parse, with or without query
\* parameters, the call fails with the URL parse error before any attempt:
\* no round trip, no retry wait.
C7_UnparseableURLFailsBeforeAttempts ==
    (pc # "idle" /\ ~UrlParses(JoinBase(client.baseURL, params.URL)))
    => (/\ Done
        /\ ret.err = ErrParsingURL
        /\ NAttempts = 0
        /\ nRoundTrips = 0
        /\ nSleeps = 0)

\* C8: a response with a status below 400, or of 600 and above, ends the call
\* at the attempt where it is received, with that response and a nil error.
C8_FinalStatusEndsCall ==
    \A i \in 1..NAttempts :
        (IsResponse(outcomes[i])
         /\ (outcomes[i].status < 400 \/ outcomes[i].status >= 600))
        => (/\ Done
            /\ i = NAttempts
            /\ ret.err = NoErr
            /\ ret.response.StatusCode = outcomes[i].status)

\* C9: every returned response has a body no longer than the effective size
\* cap: the configured MaxResponseSize when positive, 51200 otherwise.
C9_BodyWithinCap ==
    (Done /\ ~ret.response.isNil) => ret.response.BodyLen <= EffectiveCap

C9_Witness ==
    /\ Done
    /\ config.MaxResponseSize = 0
    /\ NAttempts = 2
    /\ wire.avail > DefaultMaxResponseSize
    /\ ret.response.BodyLen = DefaultMaxResponseSize
    /\ ret.response.Truncated

\* C10: capturing a body of b bytes under the cap m gives Truncated = (b > m)
\* and len(Body) = min(b, m).
C10_TruncatedIffOverCap ==
    (Done /\ ~ret.response.isNil)
    => (/\ ret.response.Truncated = (wire.avail > EffectiveCap)
        /\ ret.response.BodyLen = Min(wire.avail, EffectiveCap))

\* C11: when the body is longer than the cap, the capture is truncated and
\* OriginalSize is the declared content length when that is positive, and
\* otherwise the number of bytes read, cap + 1; either way it is >= cap.
C11_OriginalSizeWhenTruncated ==
    (Done /\ ~ret.response.isNil /\ wire.avail > EffectiveCap)
    => (/\ ret.response.Truncated
        /\ ret.response.OriginalSize =
              (IF wire.contentLength > 0
               THEN wire.contentLength
               ELSE EffectiveCap + 1)
        /\ wire.bytesRead = EffectiveCap + 1
        /\ ret.response.OriginalSize >= EffectiveCap)

C11_Witness ==
    /\ Done
    /\ config.MaxResponseSize = 2
    /\ wire.avail = DefaultMaxResponseSize + 1
    /\ wire.contentLength = DefaultMaxResponseSize + 1
    /\ ret.response.Truncated
    /\ ret.response.BodyLen = 2
    /\ ret.response.OriginalSize = DefaultMaxResponseSize + 1

\* a request was built and handed to the transport in the latest attempt
RequestSent == lastReq.policy # "none"

\* C12: the headers of every attempt are the default headers overridden by
\* the per-call headers: every per-call header is sent with its value, and
\* every default header whose name collides with no per-call header is sent
\* with its default value (names compared as HTTP compares them).
C12_PerCallOverridesDefault ==
    RequestSent
    => (/\ \A n \in DOMAIN params.Headers :
              /\ CanonicalKey(n) \in DOMAIN lastReq.headers
              /\ lastReq.headers[CanonicalKey(n)] = params.Headers[n]
        /\ \A n \in DOMAIN config.DefaultHeaders :
              NamesFor(params.Headers, CanonicalKey(n)) = {}
              => (/\ CanonicalKey(n) \in DOMAIN lastReq.headers
                  /\ lastReq.headers[CanonicalKey(n)] = config.DefaultHeaders[n]))

\* the call in progress, or returned, got past URL resolution
Resolved == pc # "idle" /\ ret.err # ErrParsingURL

\* stem is the base URL without its trailing slashes
IsStem(stem, base) ==
    /\ Len(stem) <= Len(base)
    /\ stem = SubSeq(base, 1, Len(stem))
    /\ \A i \in (Len(stem) + 1)..Len(base) : base[i] = "/"
    /\ (Len(stem) = 0 \/ stem[Len(stem)] # "/")

\* C13: a URL beginning with "/" on a client with a base URL is requested as
\* the base, whether or not it ends in "/", followed by the URL, with exactly
\* one "/" at the junction; any other URL, and every URL on a client without
\* a base URL, is requested unchanged (the query part may be rewritten by the
\* query parameters of the call).
C13_BaseJoinedWithOneSlash ==
    Resolved
    => LET u == params.URL
           b == config.BaseURL
           stemLen == CHOOSE n \in 0..Len(b) : IsStem(SubSeq(b, 1, n), b)
           expected == IF HasPrefix(u, "/") /\ b # <<>>
                       THEN SubSeq(b, 1, stemLen) \o u
                       ELSE u
       IN /\ Cut(requestURL, "?")[1] = Cut(expected, "?")[1]
          /\ DOMAIN params.QueryParams = {} => requestURL = expected
          /\ (HasPrefix(u, "/") /\ b # <<>>)
             => (/\ requestURL[stemLen + 1] = "/"
                 /\ (stemLen = 0 \/ requestURL[stemLen] # "/"))

C13_Witness ==
    /\ Resolved
    /\ config.BaseURL = <<"h", ":", "/", "/">>
    /\ params.URL = RelativeURL
    /\ requestURL = <<"h", ":", "/", "x">>
    /\ nRoundTrips = 1

\* the key/value pairs of the query part of a URL
PairsOf(u) == ParseQuery(Cut(u, "?")[2])

LastIs3xx ==
    /\ outcomes # <<>>
    /\ IsResponse(outcomes[Len(outcomes)])
    /\ outcomes[Len(outcomes)].status >= 300
    /\ outcomes[Len(outcomes)].status < 400

\* C15: with FollowRedirects false no attempt issues a follow-up request: the
\* first response received is the one handed back; and a 3xx received this
\* way ends the call, which returns it with a nil error.
C15_NoFollowReturnsFirstResponse ==
    ~params.FollowRedirects
    => /\ RequestSent => (lastReq.policy = "useLast" /\ lastReq.followUps = 0)
       /\ LastIs3xx
          => (/\ Done
              /\ ret.err = NoErr
              /\ ret.response.StatusCode = outcomes[Len(outcomes)].status)

C15_Witness ==
    /\ ~params.FollowRedirects
    /\ client.retryCount >= 1
    /\ Done
    /\ nRoundTrips = 1
    /\ lastReq.followUps = 0
    /\ ret.response.StatusCode = RedirectStatus

\* a timeout value as a limit: zero stands for no limit
AsLimit(t) == IF t = 0 THEN NoLimit ELSE t

\* C16: the timeout limiting an attempt is the per-call timeout when that is
\* non-zero and the client's timeout only when the per-call timeout is zero
\* (stated for the first attempt of a call, before any time has passed).
C16_PerCallTimeoutReplacesDefault ==
    (RequestSent /\ NAttempts = 1)
    => lastReq.limit = IF params.Timeout # 0
                       THEN AsLimit(params.Timeout)
                       ELSE AsLimit(config.Timeout)

\* C17: with a per-call timeout, an attempt after the first starts with the
\* full per-call timeout ahead of it, whatever time the earlier attempts and
\* waits of the call have used.
C17_FreshDeadlinePerAttempt ==
    (pc = "attempt" /\ attempt > 0 /\ params.Timeout > 0)
    => deadlineLeft = params.Timeout

\* C18: once the caller's context is cancelled, the call in progress starts
\* no attempt and begins or completes no wait between retries.
C18_CancelAbortsCall ==
    [][(ctx = "cancelled" /\ calls' = calls)
       => (nSleeps' = nSleeps /\ outcomes' = outcomes)]_vars

\* C19: at every point of a sequence of calls the client's base URL, default
\* headers, size cap, retry count, retry delay and timeout are those of the
\* configuration it was built from; every header sent comes from the
\* configuration's default headers or from the headers of the call in
\* progress; and the time limit of the first attempt of a call is determined
\* by the configured timeout and the timeout of that call.
C19_CallsLeaveClientUnchanged ==
    /\ client.baseURL = config.BaseURL
    /\ client.defaultHeaders = config.DefaultHeaders
    /\ client.maxResponseSize = IF config.MaxResponseSize <= 0
                                THEN DefaultMaxResponseSize
                                ELSE config.MaxResponseSize
    /\ client.retryCount = config.RetryCount
    /\ client.retryDelay = config.RetryDelay
    /\ client.timeout = config.Timeout
    /\ RequestSent
       => /\ \A k \in DOMAIN lastReq.headers :
                \/ \E n \in NamesFor(params.Headers, k) :
                      lastReq.headers[k] = params.Headers[n]
                \/ \E n \in NamesFor(config.DefaultHeaders, k) :
                      lastReq.headers[k] = config.DefaultHeaders[n]
          /\ NAttempts = 1
             => \/ lastReq.limit = AsLimit(config.Timeout)
                \/ lastReq.limit = AsLimit(params.Timeout)

\* the second of two calls has sent a request after a first call with other
\* headers and another timeout returned
C19_Witness ==
    /\ calls = 2
    /\ Done
    /\ nRoundTrips = 2
    /\ params.Headers = NoHeaders
    /\ params.Timeout = 0
    /\ DOMAIN lastReq.headers = {<<"X", "-", "A">>, <<"B">>}
    /\ client.defaultHeaders = SomeDefaults

\* C20: with a second call overlapping, every attempt of the call is made
\* under the redirect policy of its own FollowRedirects value, and so is the
\* attempt of the overlapping call.
C20_OwnRedirectPolicy ==
    /\ RequestSent => lastReq.policy = RedirectPolicy(params.FollowRedirects)
    /\ other.seen # "none" => other.seen = RedirectPolicy(other.follow)

\* the call is inside the retry loop
InLoop == pc \in {"loop", "sleep", "attempt"}

\* C21: the attempts of a call run one after the other in increasing index
\* order, the loop counter being the number of attempts completed; there is
\* no wait before attempt 0 and exactly one wait before every later attempt,
\* none after the last: a call with k >= 1 attempts has waited k-1 times.
C21_OneWaitBetweenAttempts ==
    /\ InLoop => attempt = NAttempts
    /\ (Done /\ NAttempts >= 1) => attempt \in {NAttempts - 1, NAttempts}
    /\ pc = "attempt" => nSleeps = NAttempts
    /\ (pc # "attempt" /\ NAttempts >= 1) => nSleeps = NAttempts - 1
    /\ NAttempts = 0 => nSleeps = 0

C21_Witness ==
    /\ Done
    /\ NAttempts = 3
    /\ nSleeps = 2
    /\ ~ret.response.isNil

\* the latest attempt of the call ended in an error
LastFailed == NAttempts >= 1 /\ ~IsResponse(outcomes[NAttempts])

C23_AttemptsBounded ==
    (config.RetryCount >= 0 /\ pc # "idle" /\ ReachedLoop)
    => (/\ NAttempts <= config.RetryCount + 1
        /\ Done => NAttempts >= 1)

C23_Witness ==
    /\ Done
    /\ config.RetryCount = 2
    /\ NAttempts = 3
    /\ Is5xx(outcomes[3])

\* C24: after a network error or a body read error at attempt n < retryCount
\* the call has not returned: it is on its way to attempt n+1, which starts
\* after one more wait; the same error at attempt n = retryCount ends the
\* call and is returned.
C24_AttemptErrorRetriedUntilLast ==
    (LastFailed /\ outcomes[NAttempts].err \in {ErrExecuting, ErrReadingBody})
    => IF NAttempts - 1 < config.RetryCount
       THEN /\ InLoop
            /\ attempt = NAttempts
            /\ nSleeps = IF pc = "attempt" THEN NAttempts ELSE NAttempts - 1
       ELSE /\ Done
            /\ ret.err = outcomes[NAttempts].err
            /\ ret.response.isNil

C24_Witness ==
    /\ pc = "attempt"
    /\ config.RetryCount = 2
    /\ NAttempts = 2
    /\ outcomes[1].err = ErrReadingBody
    /\ outcomes[2].err = ErrExecuting
    /\ nSleeps = 2

\* the latest invocation of the handler returned without calling the engine
ReturnedEarly == tool.pc = "done" /\ calls = tool.seq

\* the engine was called by the latest invocation of the handler
EngineCalled == tool.n >= 1 /\ calls = tool.seq + 1

\* the first check of the handler that the input fails, "" when none
FirstFailedCheck(in) ==
    IF in.Method = <<>> THEN "method is required"
    ELSE IF ToUpperString(in.Method) \notin
              {GET, POST, PUT, DELETE, PATCH, HEAD, OPTIONS}
    THEN "unsupported method: "
    ELSE IF in.URL = <<>> THEN "url is required"
    ELSE IF in.Timeout # <<>> /\ ~ParseDuration(in.Timeout).ok
    THEN "invalid timeout: "
    ELSE ""

\* C25: an input with an empty method, a method that is not one of the seven
\* verbs after upper-casing, an empty URL or an unparseable timeout is
\* rejected with the text of the first of these checks it fails, in this
\* order: the result has IsError set, the Go error is nil and ExecuteRequest
\* is not called.
C25_HandlerRejectsInOrder ==
    (tool.n >= 1 /\ FirstFailedCheck(tool.input) # "")
    => (/\ ReturnedEarly
        /\ tool.result.IsError
        /\ tool.result.Text.head = FirstFailedCheck(tool.input)
        /\ tool.result.goErr = "nil")

C25_Witness ==
    /\ ReturnedEarly
    /\ calls = 1
    /\ tool.input.Method = <<"B", "A", "D">>
    /\ tool.input.URL = <<>>
    /\ tool.input.Timeout = <<"x">>
    /\ tool.result.Text.head = "unsupported method: "
    /\ tool.result.Text.method = <<"B", "A", "D">>

\* C26: when ExecuteRequest returned a response, whatever its status, the
\* result of the handler is not an error and carries the formatted response;
\* the result is an error, with the text "Request failed: " and the error,
\* exactly when ExecuteRequest returned an error; the Go error is nil.
C26_OnlyEngineErrorsAreErrors ==
    (EngineCalled /\ tool.pc = "done")
    => (/\ tool.result.goErr = "nil"
        /\ tool.result.IsError <=> ret.err # NoErr
        /\ tool.result.IsError
           => (/\ tool.result.Text.head = "Request failed: "
               /\ tool.result.Text.err = ret.err)
        /\ ~ret.response.isNil
           => (/\ ~tool.result.IsError
               /\ tool.result.Text.head = ""
               /\ tool.result.Text.formatted.StatusCode
                    = ret.response.StatusCode
               /\ tool.result.Text.formatted.shown = ret.response.BodyLen))

C26_Witness ==
    /\ EngineCalled
    /\ tool.pc = "done"
    /\ NAttempts = 2
    /\ ret.response.StatusCode = 500
    /\ ~tool.result.IsError
    /\ tool.result.Text.formatted.StatusCode = 500

\* C27: the FollowRedirects handed to the engine is true when the input
\* leaves followRedirects unset and the supplied value otherwise; the
\* include-headers flag used for the result is false when
\* includeResponseHeaders is unset and the supplied value otherwise.
C27_OptionalBooleansTriState ==
    EngineCalled
    => (/\ params.FollowRedirects
             = IF tool.input.FollowRedirects = NilBool
               THEN TRUE ELSE tool.input.FollowRedirects.val
        /\ tool.includeHeaders
             = IF tool.input.IncludeResponseHeaders = NilBool
               THEN FALSE ELSE tool.input.IncludeResponseHeaders.val
        /\ (tool.pc = "done" /\ ~tool.result.IsError)
           => tool.result.Text.formatted.headers = tool.includeHeaders)

C27_Witness ==
    /\ EngineCalled
    /\ tool.pc = "done"
    /\ tool.input.FollowRedirects = PtrTo(FALSE)
    /\ tool.input.IncludeResponseHeaders = PtrTo(TRUE)
    /\ ~params.FollowRedirects
    /\ lastReq.policy = "useLast"
    /\ ret.response.StatusCode = RedirectStatus
    /\ tool.result.Text.formatted.headers

\* the name is one of the four sensitive names, letter case aside
IsSensitive(name) ==
    \E sn \in sensitiveHeaderNames :
        /\ Len(sn) = Len(name)
        /\ \A i \in 1..Len(sn) : ToLower(name[i]) = sn[i]

\* two configurations that differ at most in the values of sensitive headers
SameButSensitive(c1, c2) ==
    /\ c1.BaseURL = c2.BaseURL
    /\ DOMAIN c1.DefaultHeaders = DOMAIN c2.DefaultHeaders
    /\ \A n \in DOMAIN c1.DefaultHeaders :
          IsSensitive(n) \/ c1.DefaultHeaders[n] = c2.DefaultHeaders[n]

\* the values the description shows for a header name: the piece after
\* "name: " where the name starts a header part
ShownFor(desc, name) ==
    {desc[p + Len(name) + 1] :
        p \in {q \in 2..(Len(desc) - Len(name) - 1) :
                 /\ desc[q - 1] \in {" Default headers: ", ", "}
                 /\ SubSeq(desc, q, q + Len(name) - 1) = name
                 /\ desc[q + Len(name)] = ": "}}

\* C28: the description built at registration is the same for every
\* configuration that differs from the registered one only in the values of
\* sensitive default headers; it shows "***" for each sensitive header and
\* the configured value for every other header.
C28_DescriptionHidesSensitiveValues ==
    description # NoDescription
    => (/\ \A c2 \in DescConfigs :
              SameButSensitive(config, c2)
              => buildToolDescription(c2) = description
        /\ \A n \in DOMAIN config.DefaultHeaders :
              ShownFor(description, n)
                = {IF IsSensitive(n) THEN "***" ELSE config.DefaultHeaders[n]})

C28_Witness ==
    /\ description # NoDescription
    /\ DOMAIN config.DefaultHeaders = {<<"A", "u", "t", "h", "o", "r", "i", "z", "a", "t", "i", "o", "n">>, <<"A", "c", "c", "e", "p", "t">>}
    /\ config.DefaultHeaders[<<"A", "u", "t", "h", "o", "r", "i", "z", "a", "t", "i", "o", "n">>] = "v1"
    /\ config.DefaultHeaders[<<"A", "c", "c", "e", "p", "t">>] = "v2"
    /\ ShownFor(description, <<"A", "u", "t", "h", "o", "r", "i", "z", "a", "t", "i", "o", "n">>) = {"***"}
    /\ ShownFor(description, <<"A", "c", "c", "e", "p", "t">>) = {"v2"}

\* the entries of mcpServers in a file; none when the file, the document or
\* mcpServers is not an object
ServersIn(file) ==
    IF /\ file.kind = "file"
       /\ file.doc.t = "obj"
       /\ "mcpServers" \in DOMAIN file.doc.v
       /\ file.doc.v["mcpServers"].t = "obj"
    THEN file.doc.v["mcpServers"].v
    ELSE <<>>

\* the config file the latest call found was a JSON object
FoundValidConfig == fs.before.kind = "file" /\ fs.before.doc.t = "obj"

\* the entry as it is spelled in the file
Spelled(entry) ==
    JObj(("command" :> JStr(entry.Command))
         @@ ("args" :> JArr([i \in 1..Len(entry.Args) |-> JStr(entry.Args[i])])))

\* C29: a writeConfig call with no failing step on an existing valid config
\* succeeds, after it mcpServers[serverName] is the new entry and every
\* other entry of mcpServers is present and unchanged; on a missing file it
\* succeeds and mcpServers holds exactly the new entry.
C29_WriteConfigKeepsOtherEntries ==
    (fs.n >= 1 /\ fs.fault = "none")
    => (/\ FoundValidConfig
           => (/\ fs.err = "nil"
               /\ fs.name \in DOMAIN ServersIn(fs.config)
               /\ ServersIn(fs.config)[fs.name] = Spelled(fs.entry)
               /\ \A k \in DOMAIN ServersIn(fs.before) \ {fs.name} :
                     /\ k \in DOMAIN ServersIn(fs.config)
                     /\ ServersIn(fs.config)[k] = ServersIn(fs.before)[k])
        /\ fs.before.kind = "missing"
           => (/\ fs.err = "nil"
               /\ DOMAIN ServersIn(fs.config) = {fs.name}
               /\ ServersIn(fs.config)[fs.name] = Spelled(fs.entry)))

\* C30: when the config file holds invalid JSON, or when creating, writing or
\* closing the temp file or the rename fails, writeConfig returns an error,
\* the config file is what it was before the call and no temp file exists.
C30_WriteConfigAllOrNothing ==
    (/\ fs.n >= 1
     /\ \/ (fs.before.kind = "file" /\ fs.before.doc.t = "invalid")
        \/ fs.fault \in {"createTemp", "write", "close", "rename"})
    => (/\ fs.err \notin {"nil", "none"}
        /\ fs.config = fs.before
        /\ ~fs.tmp)

C30_Witness ==
    /\ fs.n = 2
    /\ fs.fault = "rename"
    /\ fs.err = "renaming"
    /\ fs.before.layout = "indented"
    /\ "a" \in DOMAIN ServersIn(fs.before)
    /\ fs.name = "c"
    /\ fs.config = fs.before
    /\ ~fs.tmp

\* the name and value a raw string contributes: the text before its first
\* ": " and all text after it, when that ": " is not at the very beginning
Contribution(h) ==
    {<<SubSeq(h, 1, i - 1), SubSeq(h, i + 2, Len(h))>> :
        i \in {x \in 2..(Len(h) - 1) :
                 /\ h[x] = ":" /\ h[x + 1] = " "
                 /\ \A y \in 1..(x - 1) : ~(h[y] = ":" /\ h[y + 1] = " ")}}

\* the raw strings, by position, that contribute the name n
GivingName(raw, n) ==
    {k \in 1..Len(raw) : \E c \in Contribution(raw[k]) : c[1] = n}

\* C31: ParseHeaders maps every raw string whose first ": " is at an index
\* greater than 0 to the name before it and the value after it, later
\* colons included; other raw strings contribute nothing; of two raw
\* strings with the same name the later one's value is kept.
C31_ParseHeadersFirstColonSpace ==
    cli.parsed
    => (/\ DOMAIN cli.headers =
              {c[1] : c \in UNION {Contribution(cli.raw[k]) :
                                      k \in 1..Len(cli.raw)}}
        /\ \A n \in DOMAIN cli.headers :
              LET last == CHOOSE k \in GivingName(cli.raw, n) :
                             \A j \in GivingName(cli.raw, n) : j <= k
              IN <<n, cli.headers[n]>> \in Contribution(cli.raw[last])
        /\ config.DefaultHeaders = cli.headers)

C31_Witness ==
    /\ cli.parsed
    /\ cli.raw = << <<"k", ":", " ", "w">>, <<"k", ":", " ", "v", ":", " ", "w">> >>
    /\ DOMAIN cli.headers = {<<"k">>}
    /\ cli.headers[<<"k">>] = <<"v", ":", " ", "w">>
    /\ client.defaultHeaders = cli.headers

\* a response was returned, the one read in the latest attempt
ResponseReturned == Done /\ ~ret.response.isNil

\* C32: when the body was not truncated, OriginalSize is the number of body
\* bytes read, len(Body).
C32_OriginalSizeWhenNotTruncated ==
    (ResponseReturned /\ ~ret.response.Truncated)
    => ret.response.OriginalSize = ret.response.BodyLen

\* C33 as stated: when the body was truncated and the response declares no
\* positive content length, OriginalSize is len(Body), the cap, and is
\* smaller than the true body size.
C33_FallbackSizeIsCap ==
    (ResponseReturned /\ ret.response.Truncated /\ wire.contentLength <= 0)
    => (/\ ret.response.OriginalSize = ret.response.BodyLen
        /\ ret.response.OriginalSize = client.maxResponseSize
        /\ ret.response.OriginalSize < wire.avail)

\* C33 amended: when the body was truncated and the response declares no
\* positive content length, OriginalSize is the number of bytes read,
\* cap + 1, one more than len(Body); it never exceeds the true body size
\* and equals it when the body is exactly cap + 1 bytes long.
C33_FallbackSizeIsBytesRead ==
    (ResponseReturned /\ ret.response.Truncated /\ wire.contentLength <= 0)
    => (/\ ret.response.BodyLen = client.maxResponseSize
        /\ ret.response.OriginalSize = ret.response.BodyLen + 1
        /\ ret.response.OriginalSize = wire.bytesRead
        /\ ret.response.OriginalSize <= wire.avail
        /\ (wire.avail = client.maxResponseSize + 1
            => ret.response.OriginalSize = wire.avail))

C33_Witness ==
    /\ ResponseReturned
    /\ ret.response.Truncated
    /\ wire.contentLength <= 0
    /\ client.maxResponseSize = 2
    /\ wire.avail = 3
    /\ ret.response.BodyLen = 2
    /\ ret.response.OriginalSize = 3

\* C34: whatever the length of the server's body, one attempt reads at most
\* cap + 1 bytes of it, and never more than the body holds.
C34_ReadsAtMostCapPlusOne ==
    /\ wire.bytesRead <= client.maxResponseSize + 1
    /\ wire.bytesRead <= wire.avail

C34_Witness ==
    /\ RequestSent
    /\ client.maxResponseSize = 2
    /\ wire.avail = DefaultMaxResponseSize + 1
    /\ wire.bytesRead = 3

\* no call is in progress
Quiet == pc \in {"idle", "returned"}

\* C35: with calls made one after the other, every attempt of a call runs
\* under the redirect policy of that call's FollowRedirects, and whenever no
\* call is in progress CheckRedirect has the value it had before the call,
\* which is the value NewClient left.
C35_PolicyScopedToCall ==
    /\ RequestSent => lastReq.policy = RedirectPolicy(params.FollowRedirects)
    /\ InLoop => checkRedirect = RedirectPolicy(params.FollowRedirects)
    /\ Quiet => checkRedirect = "nil"
    /\ (Done /\ ReachedLoop) => checkRedirect = originalCheckRedirect

C35_Witness ==
    /\ Done
    /\ calls = 2
    /\ NAttempts = 2
    /\ ~params.FollowRedirects
    /\ lastReq.policy = "useLast"
    /\ checkRedirect = "nil"

\* C36: for every configured retry count, negative ones included, a call
\* that reaches the loop makes at least one attempt and returns exactly one
\* of a response and an error, and the handler never formats a nil response.
C36_AtLeastOneAttempt ==
    /\ (Done /\ ReachedLoop)
       => (/\ NAttempts >= 1
           /\ ret.response.isNil <=> ret.err # NoErr)
    /\ tool.pc # "panicked"

\* C37: what ExecuteRequest returns is the outcome of the last attempt it
\* made: its response, or its error with no response even when an earlier
\* attempt left a 5xx response behind; and with retryCount >= 0 the loop is
\* never left through its condition.
C37_ReturnsLastOutcome ==
    /\ (Done /\ NAttempts >= 1)
       => (IF IsResponse(outcomes[NAttempts])
           THEN ReturnsLatestResponse
           ELSE ret.response.isNil /\ ret.err = outcomes[NAttempts].err)
    /\ (pc = "loop" /\ client.retryCount >= 0) => attempt < maxAttempts
    /\ (Done /\ NAttempts = 0 /\ client.retryCount >= 0)
       => ret.err = ErrParsingURL

C37_Witness ==
    /\ Done
    /\ NAttempts = 2
    /\ Is5xx(outcomes[1])
    /\ ~lastResponse.isNil
    /\ IsNetworkError(outcomes[2])
    /\ ret.response.isNil
    /\ ret.err = ErrExecuting

\* C38: the headers sent are a function of the default-header map and the
\* per-call header map: whatever a run with these two maps can send is what
\* this run sent.
C38_HeadersDeterministic ==
    RequestSent
    => \A h \in SentHeaders(client.defaultHeaders, params.Headers) :
          h = lastReq.headers

\* C39: once the call and the call overlapping it have both returned,
\* CheckRedirect has its initial value again.
C39_RestoredAfterOverlap ==
    (Quiet /\ other.pc \in {"idle", "returned"}) => checkRedirect = "nil"

\* the attempts of the call for which a request was built
BuiltAttempts == {i \in 1..NAttempts : outcomes[i].req.built}

\* C40: every attempt of a call sends the same request: the method of the
\* call, the URL resolved before the loop, the same merged headers and the
\* whole request body.
C40_SameRequestEveryAttempt ==
    \A i \in BuiltAttempts :
        /\ outcomes[i].req.method = params.Method
        /\ outcomes[i].req.url = requestURL
        /\ outcomes[i].req.body = params.Body
        /\ \A j \in BuiltAttempts :
              outcomes[j].req.headers = outcomes[i].req.headers

====
